---- MODULE Spec2Model ----
(***************************************************************************)
(* Transaction ledger and balance consistency of riqueza-em-dia-api.       *)
(*                                                                         *)
(* The store (Prisma over PostgreSQL) is the pair of tables txs, accounts  *)
(* plus the static category table.  Every service call is a request slot   *)
(* that walks through the awaits of its handler, one store call per step,  *)
(* so that overlapping calls interleave exactly at the awaits.             *)
(***************************************************************************)
EXTENDS Integers, Sequences, FiniteSets, TLC

\* ------------------------------------------------------------------ bounds
\* Calls started in one behaviour.
MaxCalls == 3

\* ------------------------------------------------------------- identifiers
Procs == {"p1", "p2"}
Users == {"u1", "u2"}
AccountIds == {"a1", "a2", "a3"}
\* "a0" is a well-formed uuid that names no account row.
AccountRefs == AccountIds \cup {"a0"}
\* Transaction ids in the order the store hands them out (uuid(): never reused).
TxOrder == <<"t1", "t2">>
TxIds == {TxOrder[i] : i \in 1..Len(TxOrder)}
\* Category rows: c1 belongs to u1, c2 to u2; "c0" names no category row.
CategoryIds == {"c1", "c2"}
CategoryOwner == [c \in CategoryIds |-> IF c = "c1" THEN "u1" ELSE "u2"]
Absent == "absent"
Null == "null"

\* ---------------------------------------------------------------- calendar
\* The calendar of the model: the months are numbered by the integers, the months
\* 1..NMonths being the ones transactions are dated in; an odd month has
\* DaysPerMonth days and an even month one more (months differ in length); the
\* days are numbered from 0, the first day of month 1; an instant is a number of
\* hours since the start of day 0 (UTC).
NMonths == 3
DaysPerMonth == 2
TicksPerDay == 24
Months == 1..NMonths
DaysIn(m) == IF m % 2 = 0 THEN DaysPerMonth + 1 ELSE DaysPerMonth
FirstDay(m) == (m - 1) * DaysPerMonth + ((m - 1) \div 2)
LastDay(m) == FirstDay(m + 1) - 1
Days == FirstDay(1)..LastDay(NMonths)
\* The month the server's clock is in.
CurrentMonth == 2
\* getMonthlyData, line 457: the months it walks back through
WindowSize == 6
\* new Date('YYYY-MM-DD'): midnight UTC of that day
ParseDate(day) == day * TicksPerDay
MonthOfDay(day) ==
  CHOOSE m \in (0 - WindowSize)..(NMonths + 1) : FirstDay(m) <= day /\ day <= LastDay(m)

\* ------------------------------------------------------------------- state
VARIABLES
  txs,        \* Transaction table: id -> row
  accounts,   \* Account table: id -> row
  nextTx,     \* index in TxOrder of the next id the store hands out
  req,        \* request slot -> the call in flight and its position
  nCalls,     \* calls started so far
  acctCache,  \* cache namespace 'accounts': key Account:<id> -> cached row
  reportCache, \* CacheInterceptor's store of the reports module: key -> response
  pre,        \* history: tables as they were when the lone call in flight began
  credited,   \* history: per account, summed deltas of the calls that returned success
  stale,      \* history: <<report key, user>> cached before a later write of that user
  summaryCache, \* cache namespace 'accounts': key summary:<userId> -> cached summary
  staleAcct,  \* history: <<kind, key, cause>>: an 'accounts' cache entry older than a write
  listing,    \* history: the pages one user fetched of one query over one table
  categories, \* Category table: the ids of the rows it holds
  utcOffset,  \* the server's local time zone: hours ahead of UTC
  today       \* the day the server's clock shows (local time)

caches == <<acctCache, reportCache, summaryCache>>
vars == <<txs, accounts, nextTx, req, nCalls, acctCache, reportCache, pre, credited, stale,
          summaryCache, staleAcct, listing, categories, utcOffset, today>>

\* new Date(year, month, day, hours): that hour of that day in the server's zone
LocalDate(day, hours) == ParseDate(day) + hours - utcOffset
\* getFullYear / getMonth / getDate of an instant: its day in the server's zone
LocalDayOf(instant) == (instant + utcOffset) \div TicksPerDay
\* getCurrentMonth(): the month of new Date() in the server's zone
getCurrentMonth == MonthOfDay(today)

\* Largest `days` query parameter a client sends.
MaxDays == 2
\* Report views served through the CacheInterceptor.
ReportViews == {"summary", "income-vs-expense", "by-category", "monthly-data"}
\* The request URL: the view and its query parameters month (0: left out), type
\* (by-category only) and days (monthly-data only; 0: left out).
ReportKeys ==
  {k \in ReportViews \X (0..NMonths) \X {Absent, "income", "expense"} \X (0..MaxDays) :
     /\ (k[1] = "by-category") <=> (k[3] # Absent)
     /\ (k[4] # 0) => (k[1] = "monthly-data")}
NoReport == [hit |-> FALSE, value |-> <<>>, by |-> Absent]

DeadTx == [live |-> FALSE, userId |-> Absent, accountId |-> Absent,
           categoryId |-> Null, amount |-> 0, type |-> Absent, status |-> Absent,
           date |-> 0]
DeadAccount == [live |-> FALSE, userId |-> Absent, balance |-> 0, isArchived |-> FALSE]
NoDto == [amount |-> 0, type |-> Absent, account |-> Absent, category |-> Absent,
          status |-> Absent, date |-> -1, balance |-> -1, isArchived |-> Absent]
NoPend == [a \in AccountIds |-> 0]
IdleReq == [pc |-> "idle", op |-> Absent, user |-> Absent, id |-> Absent, dto |-> NoDto,
            snap |-> DeadTx, pend |-> NoPend, locks |-> {}, res |-> Absent,
            faulted |-> FALSE, ovl |-> FALSE, refOf |-> Absent, ref |-> Absent,
            seen |-> 0, hit |-> FALSE, out |-> DeadAccount, resp |-> <<>>,
            cachedFor |-> Absent, filter |-> <<>>, queried |-> FALSE]
NoPre == [owner |-> Absent, txs |-> <<>>, accounts |-> <<>>]
\* Pages a client asks for.
MaxPage == 2
NoPage == [got |-> FALSE, rows |-> <<>>, total |-> 0]
NoListing == [user |-> Absent, query |-> <<>>, txs |-> <<>>,
              pages |-> [k \in 1..MaxPage |-> NoPage]]

\* Prisma schema: Account.userId; the accounts every behaviour starts with.
InitAccounts ==
  [a \in AccountIds |->
     [live |-> TRUE, userId |-> IF a = "a3" THEN "u2" ELSE "u1",
      balance |-> 0, isArchived |-> FALSE]]

\* The store and the caches of a fresh deployment.
InitStore ==
  /\ txs = [t \in TxIds |-> DeadTx]
  /\ accounts = InitAccounts
  /\ nextTx = 1
  /\ req = [p \in Procs |-> IdleReq]
  /\ nCalls = 0
  /\ pre = NoPre
  /\ credited = [a \in AccountIds |-> 0]
  /\ acctCache = [a \in AccountRefs |-> DeadAccount]
  /\ reportCache = [k \in ReportKeys |-> NoReport]
  /\ stale = {}
  /\ summaryCache = [u \in Users |-> NoReport]
  /\ staleAcct = {}
  /\ listing = NoListing
  /\ categories = CategoryIds

\* The server runs on UTC, on the first day of the current month.
Init == InitStore /\ utcOffset = 0 /\ today = FirstDay(CurrentMonth)

\* ----------------------------------------------------------------- helpers
\* balanceChange of create (transactions.service.ts:104-106)
SignedAmount(type, amount) == IF type = "income" THEN amount ELSE -amount

RECURSIVE SumOver(_, _)
SumOver(S, f) ==
  IF S = {} THEN 0
  ELSE LET x == CHOOSE y \in S : TRUE IN f[x] + SumOver(S \ {x}, f)

\* Sum of signed amounts of the rows of table T attached to account a.
SignedSumIn(T, a) ==
  SumOver({t \in TxIds : T[t].live /\ T[t].accountId = a},
          [t \in TxIds |-> SignedAmount(T[t].type, T[t].amount)])
SignedSum(a) == SignedSumIn(txs, a)

InProgress(p) == req[p].pc \notin {"idle", "done"}
Quiescent == \A p \in Procs : ~InProgress(p)
\* Row lock held by another interactive transaction's pending UPDATE.
LockedByOther(p, a) == \E q \in Procs \ {p} : a \in req[q].locks

\* prisma.account.findFirst({ where: { id, userId } })
AccountFindFirst(id, userId) ==
  IF id \in AccountIds /\ accounts[id].live /\ accounts[id].userId = userId
  THEN accounts[id] ELSE DeadAccount

\* prisma.category.findUnique({ where: { id } }): "found", "none", or "invalid"
\* when id is undefined/null (Prisma rejects a findUnique without a unique key).
CategoryFindUnique(id) ==
  IF id \in {Absent, Null} THEN "invalid"
  ELSE IF id \in categories THEN "found" ELSE "none"

\* Mutant: the query filters by id alone.
RepoFindOne_anyUser(id, userId) ==
  IF id \in TxIds /\ txs[id].live THEN txs[id] ELSE DeadTx

\* TransactionRepository.findOne: findFirst({ where: { id, userId } })
RepoFindOne(id, userId) ==
  IF id \in TxIds /\ txs[id].live /\ txs[id].userId = userId THEN txs[id] ELSE DeadTx

\* How a transaction id stands to the caller: own, foreign or missing.
TxRefKind(id, userId) ==
  IF id \in TxIds /\ txs[id].live
  THEN (IF txs[id].userId = userId THEN "own" ELSE "foreign") ELSE "missing"
AccountRefKind(id, userId) ==
  IF id \in AccountIds /\ accounts[id].live
  THEN (IF accounts[id].userId = userId THEN "own" ELSE "foreign") ELSE "missing"

\* A write of `user` returned success: what is cached now predates it.
StaleAfterWrite(user) ==
  stale \cup {<<k, user>> : k \in {x \in ReportKeys : reportCache[x].hit}}

\* A ledger write that added delta[a] to each balance returned success: the
\* 'accounts' cache entries that hold a balance it changed predate it.
StaleAfterLedgerWrite(user, delta) ==
  staleAcct
  \cup {<<"Account", a, "ledger">> : a \in {x \in AccountIds : delta[x] # 0 /\ acctCache[x].live}}
  \cup (IF summaryCache[user].hit /\ SumOver(AccountIds, delta) # 0
        THEN {<<"summary", user, "ledger">>} ELSE {})

\* An account row changed through the repository: the same, for that row.
StaleAfterAccountWrite(id, owner) ==
  staleAcct
  \cup (IF acctCache[id].live THEN {<<"Account", id, "account">>} ELSE {})
  \cup (IF summaryCache[owner].hit THEN {<<"summary", owner, "account">>} ELSE {})

\* The cache entry of this kind and key was replaced or dropped.
Refreshed(kind, key) == {e \in staleAcct : ~(e[1] = kind /\ e[2] = key)}

\* A response leaves the handler: the slot ends with outcome r.
Finish(p, r) ==
  [req[p] EXCEPT !.pc = "done", !.res = r, !.pend = NoPend, !.locks = {},
                 !.snap = DeadTx, !.seen = 0]
Fail(p, r) == [Finish(p, r) EXCEPT !.faulted = TRUE]

\* ------------------------------------------------------------ call / return
\* A call enters a handler.  D names the inputs a specification draws from.
Enter(p, D, op, user, id, dto) ==
  /\ req[p].pc = "idle"
  /\ nCalls < D.calls
  /\ user \in D.users
  /\ LET others == \E q \in Procs \ {p} : InProgress(q) IN
     /\ req' = [q \in Procs |->
                  IF q = p
                  THEN [IdleReq EXCEPT !.pc = op, !.op = op, !.user = user, !.id = id,
                                       !.dto = dto, !.ovl = others]
                  ELSE IF InProgress(q) THEN [req[q] EXCEPT !.ovl = TRUE] ELSE req[q]]
     /\ pre' = IF others THEN NoPre
               ELSE [owner |-> p, txs |-> txs, accounts |-> accounts]
  /\ nCalls' = nCalls + 1
  /\ UNCHANGED <<txs, accounts, nextTx, credited, stale, staleAcct, caches, listing, categories, utcOffset, today>>

\* The caller has its response; the slot is free again.
Return(p) ==
  /\ req[p].pc = "done"
  /\ req' = [req EXCEPT ![p] = IdleReq]
  /\ pre' = IF pre.owner = p THEN NoPre ELSE pre
  /\ UNCHANGED <<txs, accounts, nextTx, nCalls, credited, stale, staleAcct, caches, listing, categories, utcOffset, today>>

\* ------------------------------------------------ TransactionsService.create
\* The store can hand out an id to every create in flight.
IdsLeft == Len(TxOrder) - (nextTx - 1) - Cardinality({q \in Procs : req[q].op = "create" /\ req[q].pc \in {"create", "create_cat", "create_row"}})

call_create(p, D) ==
  /\ IdsLeft > 0
  /\ \E user \in D.users, account \in D.cAccounts, category \in D.cCategories,
        amount \in D.amounts, type \in D.types, status \in D.statuses, date \in D.dates :
    Enter(p, D, "create", user, Absent,
          [NoDto EXCEPT !.amount = amount, !.type = type, !.account = account,
                           !.category = category, !.status = status, !.date = date])

\* lines 67-77: the account must exist and belong to the caller
create_findAccount(p) ==
  /\ req[p].pc = "create"
  /\ LET r == req[p]
         account == AccountFindFirst(r.dto.account, r.user)
         kind == AccountRefKind(r.dto.account, r.user) IN
     req' = [req EXCEPT ![p] =
               IF ~account.live
               THEN [Finish(p, "Forbidden") EXCEPT !.refOf = "account", !.ref = kind]
               ELSE [r EXCEPT !.pc = "create_cat", !.refOf = "account", !.ref = kind,
                              !.seen = account.balance]]
  /\ UNCHANGED <<txs, accounts, nextTx, nCalls, pre, listing, categories, utcOffset, today, credited, stale, staleAcct, caches>>

\* Mutant: the category is looked up only after the row went in.
create_findCategory_afterInsert(p) ==
  /\ req[p].pc = "create_cat"
  /\ LET found == CategoryFindUnique(req[p].dto.category) IN
     /\ req' = [req EXCEPT ![p] =
                  CASE found = "invalid" -> Finish(p, "BadRequest")
                    [] found = "none" -> Finish(p, "NotFound")
                    [] OTHER -> [req[p] EXCEPT !.pc = "create_row"]]
     /\ txs' = IF found = "none"
               THEN [txs EXCEPT ![TxOrder[nextTx]] =
                       [live |-> TRUE, userId |-> req[p].user,
                        accountId |-> req[p].dto.account, categoryId |-> Null,
                        amount |-> req[p].dto.amount, type |-> req[p].dto.type,
                        status |-> req[p].dto.status,
                        date |-> ParseDate(req[p].dto.date)]]
               ELSE txs
  /\ UNCHANGED <<accounts, nextTx, nCalls, pre, listing, categories, utcOffset, today, credited, stale, staleAcct, caches>>

\* lines 79-88: the category must exist
create_findCategory(p) ==
  /\ req[p].pc = "create_cat"
  /\ LET found == CategoryFindUnique(req[p].dto.category) IN
     req' = [req EXCEPT ![p] =
               CASE found = "invalid" -> Finish(p, "BadRequest")
                 [] found = "none" -> Finish(p, "NotFound")
                 [] OTHER -> [req[p] EXCEPT !.pc = "create_row"]]
  /\ UNCHANGED <<txs, accounts, nextTx, nCalls, pre, listing, categories, utcOffset, today, credited, stale, staleAcct, caches>>

\* The row create() writes (transaction.repository.ts:143-147).
NewRow(userId, dto) ==
  [live |-> TRUE, userId |-> userId, accountId |-> dto.account,
   categoryId |-> dto.category, amount |-> dto.amount, type |-> dto.type,
   status |-> dto.status, date |-> ParseDate(dto.date)]

\* lines 93-101: transactionRepository.create goes through the repository's own
\* client (this.prisma), not the interactive transaction's: it commits at once.
create_insertRow(p, D) ==
  /\ req[p].pc = "create_row"
  /\ \E fault \in D.faults :
       IF fault
       THEN /\ req' = [req EXCEPT ![p] = Fail(p, "BadRequest")]
            /\ UNCHANGED <<txs, nextTx>>
       ELSE IF ~accounts[req[p].dto.account].live
       THEN \* foreign key Transaction_account_id_fkey
            /\ req' = [req EXCEPT ![p] = Finish(p, "BadRequest")]
            /\ UNCHANGED <<txs, nextTx>>
       ELSE /\ txs' = [txs EXCEPT ![TxOrder[nextTx]] = NewRow(req[p].user, req[p].dto)]
            /\ nextTx' = nextTx + 1
            /\ req' = [req EXCEPT ![p] = [req[p] EXCEPT !.pc = "create_bal",
                                                       !.id = TxOrder[nextTx]]]
  /\ UNCHANGED <<accounts, nCalls, pre, listing, categories, utcOffset, today, credited, stale, staleAcct, caches>>

\* Mutant: the new balance is computed from the balance read earlier in the call.
Increment_readModifyWrite(balance, seen, d) == seen + d

\* balance: { increment: d }: UPDATE ... SET balance = balance + d, one statement.
Increment(balance, seen, d) == balance + d

\* The account table after the store adds d to account a's balance.
Credit(A, a, seen, d) == [A EXCEPT ![a].balance = Increment(A[a].balance, seen, d)]

\* lines 103-118: the only statement of the interactive transaction, then commit.
create_incrementBalance(p, D) ==
  /\ req[p].pc = "create_bal"
  /\ LET r == req[p]
         a == r.dto.account
         balanceChange == SignedAmount(r.dto.type, r.dto.amount) IN
     /\ ~LockedByOther(p, a)
     /\ \E fault \in D.faults :
          IF fault
          THEN /\ req' = [req EXCEPT ![p] = Fail(p, "BadRequest")]
               /\ UNCHANGED <<accounts, credited, stale, staleAcct>>
          ELSE IF ~accounts[a].live
          THEN /\ req' = [req EXCEPT ![p] = Finish(p, "BadRequest")]
               /\ UNCHANGED <<accounts, credited, stale, staleAcct>>
          ELSE /\ accounts' = Credit(accounts, a, r.seen, balanceChange)
               /\ credited' = [credited EXCEPT ![a] = @ + balanceChange]
               /\ stale' = StaleAfterWrite(r.user)
               /\ staleAcct' = StaleAfterLedgerWrite(r.user, [NoPend EXCEPT ![a] = balanceChange])
               /\ req' = [req EXCEPT ![p] = Finish(p, "ok")]
  /\ UNCHANGED <<txs, nextTx, nCalls, pre, listing, categories, utcOffset, today, caches>>

\* ----------------------------------------------- TransactionsService.findOne
call_findOne(p, D) ==
  /\ req[p].pc = "idle"
  /\ \E user \in D.users, id \in D.txIds : Enter(p, D, "findOne", user, id, NoDto)

\* lines 55-63
findOne(p) ==
  /\ req[p].pc = "findOne"
  /\ LET r == req[p]
         transaction == RepoFindOne(r.id, r.user) IN
     req' = [req EXCEPT ![p] =
               [Finish(p, IF transaction.live THEN "ok" ELSE "NotFound")
                  EXCEPT !.refOf = "transaction", !.ref = TxRefKind(r.id, r.user),
                         !.snap = transaction]]
  /\ UNCHANGED <<txs, accounts, nextTx, nCalls, pre, listing, categories, utcOffset, today, credited, stale, staleAcct, caches>>

\* ------------------------------------------------ TransactionsService.remove
call_remove(p, D) ==
  /\ req[p].pc = "idle"
  /\ \E user \in D.users, id \in D.txIds : Enter(p, D, "remove", user, id, NoDto)

\* line 234: findOne(id, userId); the row comes with its account (include)
remove_findOne(p) ==
  /\ req[p].pc = "remove"
  /\ LET r == req[p]
         transaction == RepoFindOne(r.id, r.user) IN
     req' = [req EXCEPT ![p] =
               IF ~transaction.live
               THEN [Finish(p, "NotFound") EXCEPT !.refOf = "transaction",
                                                 !.ref = TxRefKind(r.id, r.user)]
               ELSE [r EXCEPT !.pc = "remove_row", !.refOf = "transaction",
                              !.ref = TxRefKind(r.id, r.user), !.snap = transaction,
                              !.seen = accounts[transaction.accountId].balance]]
  /\ UNCHANGED <<txs, accounts, nextTx, nCalls, pre, listing, categories, utcOffset, today, credited, stale, staleAcct, caches>>

\* Mutant: deleting a row that is gone is no error (deleteMany).
RecordToDelete_orNone(id, userId) == TRUE

\* TransactionRepository.delete: transaction.delete({ where: { id, userId } })
\* needs the row to exist (P2025 otherwise).
RecordToDelete(id, userId) == RepoFindOne(id, userId).live

\* line 239: transactionRepository.delete, through this.prisma: commits at once.
remove_deleteRow(p, D) ==
  /\ req[p].pc = "remove_row"
  /\ \E fault \in D.faults :
       IF fault
       THEN /\ req' = [req EXCEPT ![p] = Fail(p, "BadRequest")]
            /\ UNCHANGED txs
       ELSE IF ~RecordToDelete(req[p].id, req[p].user)
       THEN \* P2025: record to delete does not exist
            /\ req' = [req EXCEPT ![p] = Finish(p, "BadRequest")]
            /\ UNCHANGED txs
       ELSE /\ txs' = [txs EXCEPT ![req[p].id] = DeadTx]
            /\ req' = [req EXCEPT ![p] = [req[p] EXCEPT !.pc = "remove_bal"]]
  /\ UNCHANGED <<accounts, nextTx, nCalls, pre, listing, categories, utcOffset, today, credited, stale, staleAcct, caches>>

\* lines 241-256: reverse the effect of the row read at line 234, then commit.
remove_incrementBalance(p, D) ==
  /\ req[p].pc = "remove_bal"
  /\ LET r == req[p]
         a == r.snap.accountId
         balanceAdjustment == IF r.snap.type = "income" THEN -r.snap.amount
                              ELSE r.snap.amount IN
     /\ ~LockedByOther(p, a)
     /\ \E fault \in D.faults :
          IF fault
          THEN /\ req' = [req EXCEPT ![p] = Fail(p, "BadRequest")]
               /\ UNCHANGED <<accounts, credited, stale, staleAcct>>
          ELSE IF ~accounts[a].live
          THEN /\ req' = [req EXCEPT ![p] = Finish(p, "BadRequest")]
               /\ UNCHANGED <<accounts, credited, stale, staleAcct>>
          ELSE /\ accounts' = Credit(accounts, a, r.seen, balanceAdjustment)
               /\ credited' = [credited EXCEPT ![a] = @ + balanceAdjustment]
               /\ stale' = StaleAfterWrite(r.user)
               /\ staleAcct' = StaleAfterLedgerWrite(r.user,
                                                     [NoPend EXCEPT ![a] = balanceAdjustment])
               /\ req' = [req EXCEPT ![p] = Finish(p, "ok")]
  /\ UNCHANGED <<txs, nextTx, nCalls, pre, listing, categories, utcOffset, today, caches>>

\* ------------------------------------------------ TransactionsService.update
call_update(p, D) ==
  /\ req[p].pc = "idle"
  /\ \E user \in D.users, id \in D.txIds, account \in D.uAccounts,
        category \in D.uCategories, amount \in D.uAmounts, type \in D.uTypes,
        status \in D.uStatuses, date \in D.uDates :
    Enter(p, D, "update", user, id,
          [NoDto EXCEPT !.amount = amount, !.type = type, !.account = account,
                        !.category = category, !.status = status, !.date = date])

\* line 137: existingTransaction = findOne(id, userId)
update_findOne(p) ==
  /\ req[p].pc = "update"
  /\ LET r == req[p]
         existingTransaction == RepoFindOne(r.id, r.user) IN
     req' = [req EXCEPT ![p] =
               IF ~existingTransaction.live
               THEN [Finish(p, "NotFound") EXCEPT !.refOf = "transaction",
                                                 !.ref = TxRefKind(r.id, r.user)]
               ELSE [r EXCEPT !.pc = "update_acct", !.refOf = "transaction",
                              !.ref = TxRefKind(r.id, r.user),
                              !.snap = existingTransaction]]
  /\ UNCHANGED <<txs, accounts, nextTx, nCalls, pre, listing, categories, utcOffset, today, credited, stale, staleAcct, caches>>

\* line 140 (and 196): the update names an account other than the stored one
AccountChanging(dto, existingTransaction) ==
  dto.account # Absent /\ dto.account # existingTransaction.accountId

\* lines 139-151: a new account must belong to the caller
update_checkAccount(p) ==
  /\ req[p].pc = "update_acct"
  /\ LET r == req[p] IN
     req' = [req EXCEPT ![p] =
               IF ~AccountChanging(r.dto, r.snap) THEN [r EXCEPT !.pc = "update_cat"]
               ELSE IF ~AccountFindFirst(r.dto.account, r.user).live
               THEN [Finish(p, "Forbidden")
                       EXCEPT !.refOf = "account",
                              !.ref = AccountRefKind(r.dto.account, r.user)]
               ELSE [r EXCEPT !.pc = "update_cat", !.refOf = "account",
                              !.ref = AccountRefKind(r.dto.account, r.user)]]
  /\ UNCHANGED <<txs, accounts, nextTx, nCalls, pre, listing, categories, utcOffset, today, credited, stale, staleAcct, caches>>

\* lines 153-162: a new category must exist
update_checkCategory(p) ==
  /\ req[p].pc = "update_cat"
  /\ LET r == req[p] IN
     req' = [req EXCEPT ![p] =
               IF r.dto.category \notin {Absent, Null}
                  /\ r.dto.category # r.snap.categoryId
                  /\ CategoryFindUnique(r.dto.category) # "found"
               THEN Finish(p, "NotFound")
               ELSE [r EXCEPT !.pc = "update_bal"]]
  /\ UNCHANGED <<txs, accounts, nextTx, nCalls, pre, listing, categories, utcOffset, today, credited, stale, staleAcct, caches>>

\* Mutant: the old effect is never reversed.
OldAccountAdjustment_none(dto, old) == 0

\* lines 178-193: the two adjustments, from the row read at line 137
OldAccountAdjustment(dto, old) ==
  IF dto.amount # 0 \/ dto.type # Absent
  THEN (IF old.type = "income" THEN -old.amount ELSE old.amount)
  ELSE 0
NewAccountAdjustment(dto, old) ==
  IF dto.amount # 0 \/ dto.type # Absent
  THEN LET newAmount == IF dto.amount # 0 THEN dto.amount ELSE old.amount
           newType == IF dto.type # Absent THEN dto.type ELSE old.type
       IN IF newType = "income" THEN newAmount ELSE -newAmount
  ELSE 0

\* lines 195-215: the UPDATEs the interactive transaction issues, as account -> delta
\* (an account the transaction does not touch is not in `touched`).
Adjustments(dto, old) ==
  LET oldAdj == OldAccountAdjustment(dto, old)
      newAdj == NewAccountAdjustment(dto, old) IN
  IF AccountChanging(dto, old)
  THEN [touched |-> {old.accountId, dto.account},
        delta |-> [a \in AccountIds |->
                     IF a = old.accountId THEN oldAdj
                     ELSE IF a = dto.account THEN newAdj ELSE 0]]
  ELSE IF oldAdj # 0 \/ newAdj # 0
  THEN [touched |-> {old.accountId},
        delta |-> [a \in AccountIds |-> IF a = old.accountId THEN oldAdj + newAdj ELSE 0]]
  ELSE [touched |-> {}, delta |-> NoPend]

\* lines 176-215: the balance UPDATEs run inside the interactive transaction: they
\* lock the account rows and stay invisible until the commit.
update_adjustBalances(p, D) ==
  /\ req[p].pc = "update_bal"
  /\ LET r == req[p]
         adj == Adjustments(r.dto, r.snap) IN
     /\ \A a \in adj.touched : ~LockedByOther(p, a)
     /\ \E fault \in D.faults :
          req' = [req EXCEPT ![p] =
                    IF fault THEN Fail(p, "BadRequest")
                    ELSE IF \E a \in adj.touched : ~accounts[a].live
                    THEN Finish(p, "BadRequest")
                    ELSE [r EXCEPT !.pc = "update_row", !.pend = adj.delta,
                                   !.locks = adj.touched]]
  /\ UNCHANGED <<txs, accounts, nextTx, nCalls, pre, listing, categories, utcOffset, today, credited, stale, staleAcct, caches>>

\* Mutant: a status the input leaves out is written as the schema default.
UpdateData_defaultStatus(row, dto) ==
  [row EXCEPT !.amount = IF dto.amount # 0 THEN dto.amount ELSE @,
              !.type = IF dto.type # Absent THEN dto.type ELSE @,
              !.status = IF dto.status # Absent THEN dto.status ELSE "pending",
              !.date = IF dto.date # -1 THEN ParseDate(dto.date) ELSE @,
              !.accountId = IF dto.account # Absent THEN dto.account ELSE @,
              !.categoryId = IF dto.category \notin {Absent, Null} THEN dto.category ELSE @]

\* lines 165-173: updateData holds the fields the input supplies (truthy ones)
UpdateData(row, dto) ==
  [row EXCEPT !.amount = IF dto.amount # 0 THEN dto.amount ELSE @,
              !.type = IF dto.type # Absent THEN dto.type ELSE @,
              !.status = IF dto.status # Absent THEN dto.status ELSE @,
              !.date = IF dto.date # -1 THEN ParseDate(dto.date) ELSE @,
              !.accountId = IF dto.account # Absent THEN dto.account ELSE @,
              !.categoryId = IF dto.category \notin {Absent, Null} THEN dto.category ELSE @]

\* line 218: transactionRepository.update, through this.prisma: commits at once,
\* ahead of the interactive transaction that is still open.
update_updateRow(p, D) ==
  /\ req[p].pc = "update_row"
  /\ LET r == req[p] IN
     \E fault \in D.faults :
       IF fault
       THEN /\ req' = [req EXCEPT ![p] = Fail(p, "BadRequest")]
            /\ UNCHANGED txs
       ELSE IF ~RepoFindOne(r.id, r.user).live
               \/ (r.dto.account # Absent /\ ~accounts[r.dto.account].live)
       THEN \* P2025 (no row with this id and userId) or the account foreign key
            /\ req' = [req EXCEPT ![p] = Finish(p, "BadRequest")]
            /\ UNCHANGED txs
       ELSE /\ txs' = [txs EXCEPT ![r.id] = UpdateData(txs[r.id], r.dto)]
            /\ req' = [req EXCEPT ![p] = [r EXCEPT !.pc = "update_commit"]]
  /\ UNCHANGED <<accounts, nextTx, nCalls, pre, listing, categories, utcOffset, today, credited, stale, staleAcct, caches>>

\* line 219: the callback returned, the interactive transaction commits its UPDATEs.
update_commit(p, D) ==
  /\ req[p].pc = "update_commit"
  /\ LET r == req[p] IN
     \E fault \in D.faults :
       IF fault
       THEN /\ req' = [req EXCEPT ![p] = Fail(p, "BadRequest")]
            /\ UNCHANGED <<accounts, credited, stale, staleAcct>>
       ELSE /\ accounts' = [a \in AccountIds |->
                              IF a \in r.locks
                              THEN [accounts[a] EXCEPT !.balance = @ + r.pend[a]]
                              ELSE accounts[a]]
            /\ credited' = [a \in AccountIds |-> credited[a] + r.pend[a]]
            /\ stale' = StaleAfterWrite(r.user)
            /\ staleAcct' = StaleAfterLedgerWrite(r.user, r.pend)
            /\ req' = [req EXCEPT ![p] = Finish(p, "ok")]
  /\ UNCHANGED <<txs, nextTx, nCalls, pre, listing, categories, utcOffset, today, caches>>

\* ----------------------------------------------- TransactionsService.findAll
\* A list request: the raw query string.  monthForm is the shape of the month
\* parameter ("MM", "YYYY-MM", "empty" for '' or Absent), monthNo the month it
\* names; year is "YYYY", "empty" or Absent.
NoQuery == [monthForm |-> Absent, monthNo |-> 0, year |-> Absent, type |-> Absent,
            sort |-> "date", order |-> "desc", page |-> 1, limit |-> 1]

\* transactionFilterSchema (transaction.schema.ts:26-87): '' becomes undefined, a
\* bare month needs a year (superRefine), a bare month and a year are joined into
\* YYYY-MM, and year is deleted from the result.
transactionFilterSchema(q) ==
  LET month == IF q.monthForm \in {Absent, "empty"} THEN Absent ELSE q.monthForm
      year == IF q.year \in {Absent, "empty"} THEN Absent ELSE q.year IN
  IF month = "MM" /\ year = Absent
  THEN [ok |-> FALSE, filter |-> <<>>]
  ELSE [ok |-> TRUE,
        filter |-> [month |-> IF month = "MM" THEN "YYYY-MM" ELSE month,
                    monthNo |-> IF month = Absent THEN 0 ELSE q.monthNo,
                    year |-> Absent, type |-> q.type, sort |-> q.sort, order |-> q.order]]

\* TransactionRepository.findAll, lines 31-77: where.date, or no date condition
DateWhere(filter) ==
  IF filter.month # Absent /\ filter.year # Absent
  THEN IF filter.year = "YYYY" /\ filter.month = "MM"
       THEN [any |-> FALSE, gte |-> LocalDate(FirstDay(filter.monthNo), 0),
             lte |-> LocalDate(LastDay(filter.monthNo), TicksPerDay - 1)]
       ELSE [any |-> TRUE, gte |-> 0, lte |-> 0]
  ELSE IF filter.year # Absent
  THEN [any |-> FALSE, gte |-> LocalDate(FirstDay(1), 0),
        lte |-> LocalDate(LastDay(NMonths), TicksPerDay - 1)]
  ELSE [any |-> TRUE, gte |-> 0, lte |-> 0]

\* lines 22-28 and 31-77: the rows the where clause selects
Matching(userId, filter) ==
  LET date == DateWhere(filter) IN
  {t \in TxIds : /\ txs[t].live /\ txs[t].userId = userId
                 /\ (filter.type # Absent => txs[t].type = filter.type)
                 /\ (~date.any => txs[t].date >= date.gte /\ txs[t].date <= date.lte)}

SortKey(t, field) == IF field = "amount" THEN txs[t].amount ELSE txs[t].date

\* ORDER BY one column: every order of the rows that is sorted on that column (the
\* store leaves the order of rows with equal values open, query by query).
OrderedBy(S, field, direction) ==
  {f \in [1..Cardinality(S) -> S] :
     /\ \A i, j \in 1..Cardinality(S) : i # j => f[i] # f[j]
     /\ \A i, j \in 1..Cardinality(S) :
          i < j => IF direction = "asc" THEN SortKey(f[i], field) <= SortKey(f[j], field)
                   ELSE SortKey(f[i], field) >= SortKey(f[j], field)}

\* skip / take
PageOf(ordered, page, limit) ==
  LET skip == (page - 1) * limit
      last == IF skip + limit < Len(ordered) THEN skip + limit ELSE Len(ordered) IN
  SubSeq(ordered, skip + 1, last)

call_findAll(p, D) ==
  /\ req[p].pc = "idle"
  /\ \E user \in D.users, q \in D.queries : Enter(p, D, "findAll", user, Absent, q)

\* @Query(new ZodValidationPipe(transactionFilterSchema)): a query the schema
\* rejects never reaches the service.
findAll_validate(p) ==
  /\ req[p].pc = "findAll"
  /\ LET parsed == transactionFilterSchema(req[p].dto) IN
     req' = [req EXCEPT ![p] =
               IF ~parsed.ok THEN Finish(p, "Validation")
               ELSE [req[p] EXCEPT !.pc = "findAll_query", !.filter = parsed.filter]]
  /\ UNCHANGED <<txs, accounts, nextTx, nCalls, pre, listing, categories, utcOffset, today, credited, stale, staleAcct, caches>>

\* The pages fetched so far of this query by this user over this table, this one added.
Listed(user, q, rows, total) ==
  LET query == [q EXCEPT !.page = 1]
      same == listing.user = user /\ listing.query = query /\ listing.txs = txs
      before == IF same THEN listing.pages ELSE NoListing.pages IN
  [user |-> user, query |-> query, txs |-> txs,
   pages |-> [before EXCEPT ![q.page] = [got |-> TRUE, rows |-> rows, total |-> total]]]

\* lines 93-108: findMany (skip, take, orderBy) and count over the same where clause
findAll_query(p) ==
  /\ req[p].pc = "findAll_query"
  /\ LET r == req[p]
         S == Matching(r.user, r.filter) IN
     \E ordered \in OrderedBy(S, r.filter.sort, r.filter.order) :
       LET transactions == PageOf(ordered, r.dto.page, r.dto.limit) IN
       /\ req' = [req EXCEPT ![p] =
                    [r EXCEPT !.pc = "done", !.res = "ok", !.queried = TRUE,
                              !.resp = [transactions |-> transactions,
                                        total |-> Cardinality(S)]]]
       /\ listing' = Listed(r.user, r.dto, transactions, Cardinality(S))
  /\ UNCHANGED <<txs, accounts, nextTx, nCalls, pre, credited, stale, staleAcct, caches,
                 categories, utcOffset, today>>

\* ------------------------------------------ CategoriesService.deleteCategory
call_deleteCategory(p, D) ==
  /\ req[p].pc = "idle"
  /\ \E user \in D.users, id \in D.catIds : Enter(p, D, "deleteCategory", user, id, NoDto)

\* categories.service.ts:50-54: findFirst({ where: { id, userId } })
deleteCategory_findById(p) ==
  /\ req[p].pc = "deleteCategory"
  /\ LET r == req[p] IN
     req' = [req EXCEPT ![p] =
               IF r.id \in categories /\ CategoryOwner[r.id] = r.user
               THEN [r EXCEPT !.pc = "deleteCategory_delete"]
               ELSE Finish(p, "NotFound")]
  /\ UNCHANGED <<txs, accounts, nextTx, nCalls, pre, listing, categories, utcOffset, today, credited,
                 stale, staleAcct, caches>>

\* Transaction_category_id_fkey: ON DELETE SET NULL
OnDeleteSetNull(T, categoryId) ==
  [t \in TxIds |-> IF T[t].live /\ T[t].categoryId = categoryId
                   THEN [T[t] EXCEPT !.categoryId = Null] ELSE T[t]]

\* line 56: category.delete (P2025 when the row is gone by now; nothing catches it)
deleteCategory_delete(p) ==
  /\ req[p].pc = "deleteCategory_delete"
  /\ LET r == req[p] IN
     IF r.id \notin categories
     THEN /\ req' = [req EXCEPT ![p] = Finish(p, "Internal")]
          /\ UNCHANGED <<txs, categories>>
     ELSE /\ categories' = categories \ {r.id}
          /\ txs' = OnDeleteSetNull(txs, r.id)
          /\ req' = [req EXCEPT ![p] = Finish(p, "ok")]
  /\ UNCHANGED <<accounts, nextTx, nCalls, pre, listing, utcOffset, today, credited, stale, staleAcct,
                 caches>>

\* ------------------------------------------------------- AccountRepository
\* BaseRepository.findById / update / delete (pagination.dto.ts:109-205), as
\* AccountRepository inherits them; AccountsService forwards to them unchanged.
AccountOps == {"acctFindById", "acctUpdate", "acctArchive", "acctDelete"}

call_acctFindById(p, D) ==
  /\ req[p].pc = "idle"
  /\ \E user \in D.users, id \in D.acctIds : Enter(p, D, "acctFindById", user, id, NoDto)

\* AccountsService.update: the dto is updateAccountSchema, every field optional
call_acctUpdate(p, D) ==
  /\ req[p].pc = "idle"
  /\ \E user \in D.users, id \in D.acctIds, balance \in D.aBalances,
        isArchived \in D.aArchived :
       Enter(p, D, "acctUpdate", user, id,
             [NoDto EXCEPT !.balance = balance, !.isArchived = isArchived])

\* AccountRepository.updateArchiveStatus: update(id, { isArchived }, userId)
call_acctArchive(p, D) ==
  /\ req[p].pc = "idle"
  /\ \E user \in D.users, id \in D.acctIds, isArchived \in {"true", "false"} :
       Enter(p, D, "acctArchive", user, id, [NoDto EXCEPT !.isArchived = isArchived])

call_acctDelete(p, D) ==
  /\ req[p].pc = "idle"
  /\ \E user \in D.users, id \in D.acctIds : Enter(p, D, "acctDelete", user, id, NoDto)

\* Where update / delete go on once findById has returned the entity.
AfterFindById(r, entity) ==
  CASE r.op = "acctFindById" -> [r EXCEPT !.pc = "done", !.res = "ok", !.out = entity]
    [] r.op = "acctDelete" -> [r EXCEPT !.pc = "acct_dbDelete", !.out = entity]
    [] OTHER -> [r EXCEPT !.pc = "acct_dbUpdate", !.out = entity]

\* findById, lines 110-118: the cache is asked first, by createCacheKey(id)
acct_cacheGet(p) ==
  /\ req[p].pc \in AccountOps
  /\ LET r == req[p]
         cached == acctCache[r.id] IN
     req' = [req EXCEPT ![p] =
               IF cached.live THEN AfterFindById([r EXCEPT !.hit = TRUE], cached)
               ELSE [r EXCEPT !.pc = "acct_dbFind"]]
  /\ UNCHANGED <<txs, accounts, nextTx, nCalls, pre, listing, categories, utcOffset, today, credited, stale, staleAcct, caches>>

\* findById, lines 120-131: findFirst({ where: { id, userId } })
acct_dbFind(p) ==
  /\ req[p].pc = "acct_dbFind"
  /\ LET r == req[p]
         entity == AccountFindFirst(r.id, r.user) IN
     req' = [req EXCEPT ![p] =
               IF ~entity.live THEN Finish(p, "NotFound")
               ELSE [r EXCEPT !.pc = "acct_cacheSet", !.out = entity]]
  /\ UNCHANGED <<txs, accounts, nextTx, nCalls, pre, listing, categories, utcOffset, today, credited, stale, staleAcct, caches>>

\* findById, lines 133-138: the entity is cached under its id
acct_cacheSet(p) ==
  /\ req[p].pc = "acct_cacheSet"
  /\ acctCache' = [acctCache EXCEPT ![req[p].id] = req[p].out]
  /\ staleAcct' = Refreshed("Account", req[p].id)
  /\ req' = [req EXCEPT ![p] = AfterFindById(req[p], req[p].out)]
  /\ UNCHANGED <<txs, accounts, nextTx, nCalls, reportCache, summaryCache, pre, listing, categories, utcOffset, today, credited, stale>>

\* The row after prismaModel.update({ where: { id }, data }) with the dto's fields.
AccountData(row, dto) ==
  [row EXCEPT !.balance = IF dto.balance # -1 THEN dto.balance ELSE @,
              !.isArchived = IF dto.isArchived # Absent THEN dto.isArchived = "true" ELSE @]

\* update, lines 171-175 (P2025 when no row has the id)
acct_dbUpdate(p) ==
  /\ req[p].pc = "acct_dbUpdate"
  /\ ~LockedByOther(p, req[p].id)
  /\ LET r == req[p] IN
     IF ~accounts[r.id].live
     THEN /\ req' = [req EXCEPT ![p] = Finish(p, "Internal")]
          /\ UNCHANGED <<accounts, staleAcct>>
     ELSE /\ accounts' = [accounts EXCEPT ![r.id] = AccountData(@, r.dto)]
          /\ staleAcct' = IF AccountData(accounts[r.id], r.dto) # accounts[r.id]
                          THEN StaleAfterAccountWrite(r.id, accounts[r.id].userId)
                          ELSE staleAcct
          /\ req' = [req EXCEPT ![p] = [r EXCEPT !.pc = "acct_cacheDel",
                                                !.out = AccountData(accounts[r.id], r.dto)]]
  /\ UNCHANGED <<txs, nextTx, nCalls, pre, listing, categories, utcOffset, today, credited, stale, caches>>

\* Mutant: the account's transactions stay behind.
OnDeleteCascade_none(T, accountId) == T

\* Transaction_account_id_fkey: ON DELETE CASCADE
OnDeleteCascade(T, accountId) ==
  [t \in TxIds |-> IF T[t].live /\ T[t].accountId = accountId THEN DeadTx ELSE T[t]]

\* delete, lines 193-196; the store removes the account's transactions with it
acct_dbDelete(p) ==
  /\ req[p].pc = "acct_dbDelete"
  /\ ~LockedByOther(p, req[p].id)
  /\ LET r == req[p] IN
     IF ~accounts[r.id].live
     THEN /\ req' = [req EXCEPT ![p] = Finish(p, "Internal")]
          /\ UNCHANGED <<accounts, txs, staleAcct>>
     ELSE /\ accounts' = [accounts EXCEPT ![r.id] = DeadAccount]
          /\ staleAcct' = StaleAfterAccountWrite(r.id, accounts[r.id].userId)
          /\ txs' = OnDeleteCascade(txs, r.id)
          /\ req' = [req EXCEPT ![p] = [r EXCEPT !.pc = "acct_cacheDel",
                                                !.out = accounts[r.id]]]
  /\ UNCHANGED <<nextTx, nCalls, pre, listing, categories, utcOffset, today, credited, stale, caches>>

\* update 177-181, delete 198-202: the entity's key is deleted (the second
\* delete names the literal key 'findAll:*', which holds nothing)
acct_cacheDel(p) ==
  /\ req[p].pc = "acct_cacheDel"
  /\ acctCache' = [acctCache EXCEPT ![req[p].id] = DeadAccount]
  /\ staleAcct' = Refreshed("Account", req[p].id)
  /\ req' = [req EXCEPT ![p] = [req[p] EXCEPT !.pc = "done", !.res = "ok"]]
  /\ UNCHANGED <<txs, accounts, nextTx, nCalls, reportCache, summaryCache, pre, listing, categories, utcOffset, today, credited, stale>>

\* The cache drops an entry whose TTL has run out.
acct_cacheExpire(a) ==
  /\ acctCache[a].live
  /\ acctCache' = [acctCache EXCEPT ![a] = DeadAccount]
  /\ staleAcct' = Refreshed("Account", a)
  /\ UNCHANGED <<txs, accounts, nextTx, req, nCalls, reportCache, summaryCache, pre, listing, categories, utcOffset, today, credited, stale>>

\* -------------------------------------- AccountRepository.getAccountsSummary
\* Mutant: the balances of the archived accounts are left out of the total.
AccountsSummary_activeOnly(userId) ==
  LET mine == {a \in AccountIds : accounts[a].live /\ accounts[a].userId = userId} IN
  [totalBalance |-> SumOver({a \in mine : ~accounts[a].isArchived},
                            [a \in AccountIds |-> accounts[a].balance]),
   totalAccounts |-> Cardinality(mine),
   activeAccounts |-> Cardinality({a \in mine : ~accounts[a].isArchived})]

\* lines 86-98: findMany({ where: { userId } }) and the three aggregates
AccountsSummary(userId) ==
  LET mine == {a \in AccountIds : accounts[a].live /\ accounts[a].userId = userId} IN
  [totalBalance |-> SumOver(mine, [a \in AccountIds |-> accounts[a].balance]),
   totalAccounts |-> Cardinality(mine),
   activeAccounts |-> Cardinality({a \in mine : ~accounts[a].isArchived})]

call_acctSummary(p, D) ==
  /\ req[p].pc = "idle"
  /\ \E user \in D.users : Enter(p, D, "acctSummary", user, Absent, NoDto)

\* lines 77-84: the cache is asked first, by summary:<userId>
summary_cacheGet(p) ==
  /\ req[p].pc = "acctSummary"
  /\ LET r == req[p]
         cached == summaryCache[r.user] IN
     req' = [req EXCEPT ![p] =
               IF cached.hit
               THEN [r EXCEPT !.pc = "done", !.res = "ok", !.hit = TRUE,
                              !.resp = cached.value]
               ELSE [r EXCEPT !.pc = "summary_dbFind"]]
  /\ UNCHANGED <<txs, accounts, nextTx, nCalls, pre, listing, categories, utcOffset, today, credited, stale, staleAcct, caches>>

\* lines 86-98
summary_dbFind(p) ==
  /\ req[p].pc = "summary_dbFind"
  /\ req' = [req EXCEPT ![p] = [req[p] EXCEPT !.pc = "summary_cacheSet", !.queried = TRUE,
                                             !.resp = AccountsSummary(req[p].user)]]
  /\ UNCHANGED <<txs, accounts, nextTx, nCalls, pre, listing, categories, utcOffset, today, credited, stale, staleAcct, caches>>

\* lines 100-104: cached for 5 minutes
summary_cacheSet(p) ==
  /\ req[p].pc = "summary_cacheSet"
  /\ summaryCache' = [summaryCache EXCEPT ![req[p].user] =
                        [hit |-> TRUE, value |-> req[p].resp, by |-> req[p].user]]
  /\ staleAcct' = Refreshed("summary", req[p].user)
  /\ req' = [req EXCEPT ![p] = [req[p] EXCEPT !.pc = "done", !.res = "ok"]]
  /\ UNCHANGED <<txs, accounts, nextTx, nCalls, acctCache, reportCache, pre, listing, categories, utcOffset, today, credited, stale>>

\* The 5 minutes have passed.
summary_cacheExpire(u) ==
  /\ summaryCache[u].hit
  /\ summaryCache' = [summaryCache EXCEPT ![u] = NoReport]
  /\ staleAcct' = Refreshed("summary", u)
  /\ UNCHANGED <<txs, accounts, nextTx, req, nCalls, acctCache, reportCache, pre, listing, categories, utcOffset, today, credited,
                 stale>>

\* ------------------------------------------------- ReportsController (cached)
\* getMonthDateRange: the first instant of the month and the last one of its last
\* day (day 0 of the next month, 23:59:59.999), both in the server's local time
MonthDateRange(month) ==
  [startDate |-> LocalDate(FirstDay(month), 0),
   endDate |-> LocalDate(LastDay(month), TicksPerDay - 1)]
\* monthStr || this.getCurrentMonth()
getMonthDateRange(monthStr) ==
  MonthDateRange(IF monthStr = 0 THEN getCurrentMonth ELSE monthStr)

\* Mutant: the groupBy without the status condition.
MonthlyTotal_anyStatus(userId, type, range) ==
  SumOver({t \in TxIds : txs[t].live /\ txs[t].userId = userId
                         /\ txs[t].date >= range.startDate /\ txs[t].date <= range.endDate
                         /\ txs[t].type = type},
          [t \in TxIds |-> txs[t].amount])

\* The groupBy of getSummary / getIncomeVsExpense: the user's completed rows of one
\* type dated within the range, their amounts summed.
MonthlyTotal(userId, type, range) ==
  SumOver({t \in TxIds : txs[t].live /\ txs[t].userId = userId
                         /\ txs[t].date >= range.startDate /\ txs[t].date <= range.endDate
                         /\ txs[t].status = "completed" /\ txs[t].type = type},
          [t \in TxIds |-> txs[t].amount])

\* ReportsService.getSummary
getSummary(userId, monthStr) ==
  [totalBalance |->
     SumOver({a \in AccountIds : accounts[a].live /\ accounts[a].userId = userId
                                 /\ ~accounts[a].isArchived},
             [a \in AccountIds |-> accounts[a].balance]),
   monthlyIncome |-> MonthlyTotal(userId, "income", getMonthDateRange(monthStr)),
   monthlyExpense |-> MonthlyTotal(userId, "expense", getMonthDateRange(monthStr)),
   recentTransactions |-> {t \in TxIds : txs[t].live /\ txs[t].userId = userId}]

\* ReportsService.getIncomeVsExpense
getIncomeVsExpense(userId, monthStr) ==
  <<[name |-> "Receitas",
     value |-> MonthlyTotal(userId, "income", getMonthDateRange(monthStr))],
    [name |-> "Despesas",
     value |-> MonthlyTotal(userId, "expense", getMonthDateRange(monthStr))]>>

\* Mutant: the groupBy without the type condition.
ByCategoryWhere_anyType(userId, type, range) ==
  {t \in TxIds : txs[t].live /\ txs[t].userId = userId
                 /\ txs[t].date >= range.startDate /\ txs[t].date <= range.endDate
                 /\ txs[t].status = "completed"}

\* getByCategory, lines 405-413: the where clause of the groupBy
ByCategoryWhere(userId, type, range) ==
  {t \in TxIds : txs[t].live /\ txs[t].userId = userId /\ txs[t].type = type
                 /\ txs[t].date >= range.startDate /\ txs[t].date <= range.endDate
                 /\ txs[t].status = "completed"}

\* lines 433-439: one chart item per group; a category's name stands for the row
\* (names are not empty: CategorySchema), no row gives 'Uncategorized'
ChartItem(rows, categoryId) ==
  [name |-> IF categoryId \in categories THEN categoryId ELSE "Uncategorized",
   value |-> SumOver({t \in rows : txs[t].categoryId = categoryId},
                     [t \in TxIds |-> txs[t].amount])]

\* Every arrangement of the items that sort((a, b) => b.value - a.value) can
\* return: the groupBy hands the groups over in an order of its own, and the sort
\* keeps items of equal value in that order.
SortedByValueDesc(items) ==
  {f \in [1..Cardinality(items) -> items] :
     /\ \A i, j \in 1..Cardinality(items) : i # j => f[i] # f[j]
     /\ \A i, j \in 1..Cardinality(items) : i < j => f[i].value >= f[j].value}

\* ReportsService.getByCategory
getByCategory(userId, type, monthStr) ==
  LET rows == ByCategoryWhere(userId, type, getMonthDateRange(monthStr))
      groups == {txs[t].categoryId : t \in rows} IN
  SortedByValueDesc({ChartItem(rows, c) : c \in groups})

\* date.setMonth(date.getMonth() - i) on a date that is day `day`: the same day
\* of the month, i months earlier; a day the earlier month does not have runs
\* over into the month after it.  The result is the month getMonth() then shows.
SetMonthBack(day, i) ==
  LET month == MonthOfDay(day)
      dayOfMonth == day - FirstDay(month) IN
  MonthOfDay(FirstDay(month - i) + dayOfMonth)

\* lines 453-463: the month strings, the latest first
MonthsOf(monthStr) ==
  LET endMonth == IF monthStr # 0 THEN LocalDayOf(ParseDate(FirstDay(monthStr))) ELSE today IN
  [i \in 0..(WindowSize - 1) |-> SetMonthBack(endMonth, i)]

\* lines 468-506: the item of one month string; its label is the month that
\* new Date(monthString + '-01') is in, in the server's zone
MonthlyDataItem(userId, monthString) ==
  LET income == MonthlyTotal(userId, "income", MonthDateRange(monthString))
      expense == MonthlyTotal(userId, "expense", MonthDateRange(monthString)) IN
  [month |-> MonthOfDay(LocalDayOf(ParseDate(FirstDay(monthString)))),
   income |-> income, expense |-> expense, balance |-> income - expense]

\* ReportsService.getMonthlyData: `days` is not read; result.reverse()
getMonthlyData(userId, monthStr, days) ==
  LET months == MonthsOf(monthStr) IN
  [k \in 1..WindowSize |-> MonthlyDataItem(userId, months[WindowSize - k])]

\* What the handler of the view can answer with.
ReportValue(key, userId) ==
  CASE key[1] = "summary" -> {getSummary(userId, key[2])}
    [] key[1] = "income-vs-expense" -> {getIncomeVsExpense(userId, key[2])}
    [] key[1] = "by-category" -> getByCategory(userId, key[3], key[2])
    [] key[1] = "monthly-data" -> {getMonthlyData(userId, key[2], key[4])}

call_report(p, D) ==
  /\ req[p].pc = "idle"
  /\ \E user \in D.users, key \in D.reports : Enter(p, D, "report", user, key, NoDto)

\* @UseInterceptors(CacheInterceptor): a GET is answered from the cache when the
\* request URL has an entry
report_cacheGet(p) ==
  /\ req[p].pc = "report"
  /\ LET r == req[p]
         cached == reportCache[r.id] IN
     req' = [req EXCEPT ![p] =
               IF cached.hit
               THEN [r EXCEPT !.pc = "done", !.res = "ok", !.hit = TRUE,
                              !.resp = cached.value, !.cachedFor = cached.by]
               ELSE [r EXCEPT !.pc = "report_compute"]]
  /\ UNCHANGED <<txs, accounts, nextTx, nCalls, pre, listing, categories, utcOffset, today, credited, stale, staleAcct, caches>>

\* the handler runs: ReportsService computes the view from the store
report_compute(p) ==
  /\ req[p].pc = "report_compute"
  /\ \E value \in ReportValue(req[p].id, req[p].user) :
       req' = [req EXCEPT ![p] = [req[p] EXCEPT !.pc = "report_cacheSet", !.resp = value]]
  /\ UNCHANGED <<txs, accounts, nextTx, nCalls, pre, listing, categories, utcOffset, today, credited, stale, staleAcct, caches>>

\* the interceptor stores the response under the request URL
report_cacheSet(p) ==
  /\ req[p].pc = "report_cacheSet"
  /\ reportCache' = [reportCache EXCEPT ![req[p].id] =
                       [hit |-> TRUE, value |-> req[p].resp, by |-> req[p].user]]
  /\ stale' = {e \in stale : e[1] # req[p].id}
  /\ req' = [req EXCEPT ![p] = [req[p] EXCEPT !.pc = "done", !.res = "ok"]]
  /\ UNCHANGED <<txs, accounts, nextTx, nCalls, acctCache, summaryCache, pre, listing, categories, utcOffset, today, credited,
                 staleAcct>>

\* ReportsModule: CacheModule.register({ ttl: 60 * 5 }): an entry expires
report_cacheExpire(k) ==
  /\ reportCache[k].hit
  /\ reportCache' = [reportCache EXCEPT ![k] = NoReport]
  /\ stale' = {e \in stale : e[1] # k}
  /\ UNCHANGED <<txs, accounts, nextTx, req, nCalls, acctCache, summaryCache, pre, listing, categories, utcOffset, today, credited,
                 staleAcct>>

\* ------------------------------------------------------------ specifications
\* Inputs of the ledger calls: both users, an account of each, a missing account.
LedgerInputs ==
  [users |-> Users, txIds |-> TxIds,
   cAccounts |-> {"a1", "a2", "a3", "a0"}, cCategories |-> {"c1", "c0", Absent},
   amounts |-> {1, 2}, types |-> {"income", "expense"}, statuses |-> {"completed"}, dates |-> {2},
   uAccounts |-> {Absent, "a2", "a3"}, uCategories |-> {Absent, "c0"},
   uAmounts |-> {0, 2}, uTypes |-> {Absent, "expense"}, uStatuses |-> {Absent}, uDates |-> {-1},
   faults |-> {FALSE}, calls |-> MaxCalls, procs |-> {"p1"}]

LedgerStep(p, D) ==
  \/ call_create(p, D) \/ create_findAccount(p) \/ create_findCategory(p)
  \/ create_insertRow(p, D) \/ create_incrementBalance(p, D)
  \/ call_update(p, D) \/ update_findOne(p) \/ update_checkAccount(p)
  \/ update_checkCategory(p) \/ update_adjustBalances(p, D)
  \/ update_updateRow(p, D) \/ update_commit(p, D)
  \/ call_remove(p, D) \/ remove_findOne(p) \/ remove_deleteRow(p, D)
  \/ remove_incrementBalance(p, D)
  \/ call_findOne(p, D) \/ findOne(p)
  \/ Return(p)

\* Calls one after the other, the store never failing.
Next == \E p \in LedgerInputs.procs : LedgerStep(p, LedgerInputs)
Spec == Init /\ [][Next]_vars

\* The same calls, every store write free to fail (connection lost, timeout).
FaultyInputs == [LedgerInputs EXCEPT !.faults = {FALSE, TRUE}]
NextFault == \E p \in FaultyInputs.procs : LedgerStep(p, FaultyInputs)
SpecFault == Init /\ [][NextFault]_vars

\* Overlapping create and remove calls of one user on one account; writes may fail.
OverlapInputs ==
  [users |-> {"u1"}, txIds |-> TxIds, cAccounts |-> {"a1"}, cCategories |-> {"c1"},
   amounts |-> {1, 2}, types |-> {"income", "expense"}, statuses |-> {"completed"}, dates |-> {2},
   faults |-> {FALSE, TRUE}, calls |-> MaxCalls, procs |-> Procs]

NextCR ==
  \E p \in OverlapInputs.procs :
    \/ call_create(p, OverlapInputs) \/ create_findAccount(p) \/ create_findCategory(p)
    \/ create_insertRow(p, OverlapInputs) \/ create_incrementBalance(p, OverlapInputs)
    \/ call_remove(p, OverlapInputs) \/ remove_findOne(p)
    \/ remove_deleteRow(p, OverlapInputs) \/ remove_incrementBalance(p, OverlapInputs)
    \/ Return(p)
SpecCR == Init /\ [][NextCR]_vars

\* One caller at a time: account reads and writes of both users through the
\* cached repository, and creates that put a transaction on an account.
AccountInputs ==
  [users |-> Users, acctIds |-> {"a1"}, aBalances |-> {-1, 5}, aArchived |-> {Absent, "true"},
   cAccounts |-> {"a1"}, cCategories |-> {"c1"}, amounts |-> {1}, types |-> {"income"},
   statuses |-> {"completed"}, dates |-> {2}, faults |-> {FALSE}, calls |-> MaxCalls, procs |-> {"p1"}]

NextAcct ==
  \/ \E p \in AccountInputs.procs :
       \/ call_acctFindById(p, AccountInputs) \/ call_acctUpdate(p, AccountInputs)
       \/ call_acctArchive(p, AccountInputs) \/ call_acctDelete(p, AccountInputs)
       \/ acct_cacheGet(p) \/ acct_dbFind(p) \/ acct_cacheSet(p)
       \/ acct_dbUpdate(p) \/ acct_dbDelete(p) \/ acct_cacheDel(p)
       \/ call_acctSummary(p, AccountInputs) \/ summary_cacheGet(p) \/ summary_dbFind(p)
       \/ summary_cacheSet(p)
       \/ call_create(p, AccountInputs) \/ create_findAccount(p) \/ create_findCategory(p)
       \/ create_insertRow(p, AccountInputs) \/ create_incrementBalance(p, AccountInputs)
       \/ Return(p)
  \/ \E a \in AccountIds : acct_cacheExpire(a)
  \/ \E u \in Users : summary_cacheExpire(u)
SpecAcct == Init /\ [][NextAcct]_vars

\* One caller at a time: ledger writes and report reads of both users.
ReportInputs ==
  [users |-> Users, txIds |-> TxIds, cAccounts |-> {"a1", "a3"}, cCategories |-> {"c1"},
   amounts |-> {1}, types |-> {"income", "expense"}, statuses |-> {"completed", "pending"}, dates |-> {2},
   uAccounts |-> {Absent}, uCategories |-> {Absent}, uAmounts |-> {2}, uTypes |-> {Absent},
   uStatuses |-> {Absent}, uDates |-> {-1},
   reports |-> {<<"summary", 0, Absent, 0>>, <<"income-vs-expense", 0, Absent, 0>>},
   faults |-> {FALSE},
   calls |-> MaxCalls, procs |-> {"p1"}]

NextReports ==
  \/ \E p \in ReportInputs.procs :
       \/ call_report(p, ReportInputs) \/ report_cacheGet(p) \/ report_compute(p)
       \/ report_cacheSet(p) \/ LedgerStep(p, ReportInputs)
  \/ \E k \in ReportKeys : report_cacheExpire(k)
SpecReports == Init /\ [][NextReports]_vars

\* One caller at a time: creates and updates that name a category of either
\* user, or none.
CategoryInputs ==
  [users |-> Users, txIds |-> TxIds, cAccounts |-> {"a1", "a3"},
   cCategories |-> {"c1", "c2", Absent, Null}, amounts |-> {1},
   types |-> {"income", "expense"}, statuses |-> {"completed"}, dates |-> {2},
   uAccounts |-> {Absent}, uCategories |-> {Absent, Null, "c1", "c2"}, uAmounts |-> {0, 2},
   uTypes |-> {Absent}, uStatuses |-> {Absent}, uDates |-> {-1}, faults |-> {FALSE}, calls |-> MaxCalls, procs |-> {"p1"}]
NextCat == \E p \in CategoryInputs.procs : LedgerStep(p, CategoryInputs)
SpecCat == Init /\ [][NextCat]_vars

\* One caller at a time: updates of every shape (each field absent, equal to the
\* stored value, or different) on the rows that creates put in.
UpdateInputs ==
  [users |-> {"u1"}, txIds |-> TxIds, cAccounts |-> {"a1", "a2"}, cCategories |-> {"c1"},
   amounts |-> {1, 2}, types |-> {"income", "expense"}, statuses |-> {"completed"}, dates |-> {2},
   uAccounts |-> {Absent, "a1", "a2"}, uCategories |-> {Absent, "c2"},
   uAmounts |-> {0, 1, 2}, uTypes |-> {Absent, "income", "expense"},
   uStatuses |-> {Absent, "pending"}, uDates |-> {-1}, faults |-> {FALSE}, calls |-> MaxCalls, procs |-> {"p1"}]
NextUpd == \E p \in UpdateInputs.procs : LedgerStep(p, UpdateInputs)
SpecUpd == Init /\ [][NextUpd]_vars

\* Calls in a behaviour of the listing specification.
MaxListCalls == 4

\* One caller at a time: creates, then list requests of every shape of the month and
\* year parameters, by either sort column, page by page.
ListInputs ==
  [users |-> {"u1"}, cAccounts |-> {"a1"}, cCategories |-> {"c1"}, amounts |-> {1, 2},
   types |-> {"income"}, statuses |-> {"completed"}, dates |-> {FirstDay(2), FirstDay(3)},
   queries |-> [monthForm : {Absent, "empty", "MM", "YYYY-MM"}, monthNo : {2},
                year : {Absent, "empty", "YYYY"}, type : {Absent},
                sort : {"date", "amount"}, order : {"desc"}, page : 1..MaxPage,
                limit : {1}],
   faults |-> {FALSE}, calls |-> MaxListCalls, procs |-> {"p1"}]

NextList ==
  \E p \in ListInputs.procs :
    \/ call_findAll(p, ListInputs) \/ findAll_validate(p) \/ findAll_query(p)
    \/ call_create(p, ListInputs) \/ create_findAccount(p) \/ create_findCategory(p)
    \/ create_insertRow(p, ListInputs) \/ create_incrementBalance(p, ListInputs)
    \/ Return(p)
SpecList == Init /\ [][NextList]_vars

\* One caller at a time: creates of either user in every status, dated on the last
\* day of the month before the current one, on its last day and on the first day
\* of the next; archiving of an account; report reads for a month.
SummaryInputs ==
  [users |-> Users, cAccounts |-> {"a1", "a3"}, cCategories |-> {"c1"}, amounts |-> {1},
   types |-> {"income", "expense"}, statuses |-> {"completed", "pending", "canceled"},
   dates |-> {LastDay(CurrentMonth - 1), LastDay(CurrentMonth), FirstDay(CurrentMonth + 1)},
   reports |-> {<<"summary", 0, Absent, 0>>, <<"summary", 1, Absent, 0>>}, acctIds |-> {"a1"},
   faults |-> {FALSE}, calls |-> MaxCalls, procs |-> {"p1"}]

NextSummary ==
  \/ \E p \in SummaryInputs.procs :
       \/ call_report(p, SummaryInputs) \/ report_cacheGet(p) \/ report_compute(p)
       \/ report_cacheSet(p)
       \/ call_create(p, SummaryInputs) \/ create_findAccount(p) \/ create_findCategory(p)
       \/ create_insertRow(p, SummaryInputs) \/ create_incrementBalance(p, SummaryInputs)
       \/ call_acctArchive(p, SummaryInputs) \/ acct_cacheGet(p) \/ acct_dbFind(p)
       \/ acct_cacheSet(p) \/ acct_dbUpdate(p) \/ acct_cacheDel(p)
       \/ Return(p)
  \/ \E k \in ReportKeys : report_cacheExpire(k)
SpecSummary == Init /\ [][NextSummary]_vars

\* Calls in a behaviour of the category-chart specification.
MaxChartCalls == 4

\* One caller at a time: creates in either category, type and status, dated in
\* the current month or the next one; deletion of a category; the category chart
\* of either type.
ChartInputs ==
  [users |-> {"u1"}, cAccounts |-> {"a1"}, cCategories |-> CategoryIds, amounts |-> {1, 2},
   types |-> {"income", "expense"}, statuses |-> {"completed", "pending"},
   dates |-> {FirstDay(CurrentMonth), FirstDay(CurrentMonth + 1)}, catIds |-> CategoryIds,
   reports |-> {<<"by-category", 0, "income", 0>>, <<"by-category", 0, "expense", 0>>},
   faults |-> {FALSE}, calls |-> MaxChartCalls, procs |-> {"p1"}]

NextChart ==
  \/ \E p \in ChartInputs.procs :
       \/ call_report(p, ChartInputs) \/ report_cacheGet(p) \/ report_compute(p)
       \/ report_cacheSet(p)
       \/ call_create(p, ChartInputs) \/ create_findAccount(p) \/ create_findCategory(p)
       \/ create_insertRow(p, ChartInputs) \/ create_incrementBalance(p, ChartInputs)
       \/ call_deleteCategory(p, ChartInputs) \/ deleteCategory_findById(p)
       \/ deleteCategory_delete(p)
       \/ Return(p)
  \/ \E k \in ReportKeys : report_cacheExpire(k)
SpecChart == Init /\ [][NextChart]_vars

\* The server runs on UTC; its clock shows any day of the current month.
InitClock ==
  InitStore /\ utcOffset = 0 /\ today \in FirstDay(CurrentMonth)..LastDay(CurrentMonth)

\* One caller at a time: creates of both types dated in the current month or the
\* one before, and the time series for the current month (named or left out),
\* the month before or the month after, with and without `days`.
MonthlyInputs ==
  [users |-> {"u1"}, cAccounts |-> {"a1"}, cCategories |-> {"c1"}, amounts |-> {1, 2},
   types |-> {"income", "expense"}, statuses |-> {"completed"},
   dates |-> {LastDay(CurrentMonth - 1), LastDay(CurrentMonth)},
   reports |-> {<<"monthly-data", m, Absent, n>> :
                  m \in {0, CurrentMonth - 1, CurrentMonth, CurrentMonth + 1}, n \in 0..MaxDays},
   faults |-> {FALSE}, calls |-> MaxCalls, procs |-> {"p1"}]

NextMonthly ==
  \/ \E p \in MonthlyInputs.procs :
       \/ call_report(p, MonthlyInputs) \/ report_cacheGet(p) \/ report_compute(p)
       \/ report_cacheSet(p)
       \/ call_create(p, MonthlyInputs) \/ create_findAccount(p) \/ create_findCategory(p)
       \/ create_insertRow(p, MonthlyInputs) \/ create_incrementBalance(p, MonthlyInputs)
       \/ Return(p)
  \/ \E k \in ReportKeys : report_cacheExpire(k)
SpecMonthly == InitClock /\ [][NextMonthly]_vars

\* One caller at a time: creates, updates that move a transaction to another
\* account or category, removes, and deletions of accounts and of categories, by
\* either user.
IntegrityInputs ==
  [users |-> Users, txIds |-> TxIds, cAccounts |-> {"a1", "a3"}, cCategories |-> CategoryIds,
   amounts |-> {1}, types |-> {"income"}, statuses |-> {"completed"}, dates |-> {2},
   uAccounts |-> {Absent, "a2", "a3"}, uCategories |-> {Absent, "c2", "c0"}, uAmounts |-> {0},
   uTypes |-> {Absent}, uStatuses |-> {Absent}, uDates |-> {-1},
   acctIds |-> {"a1", "a2"}, catIds |-> CategoryIds,
   faults |-> {FALSE}, calls |-> MaxCalls, procs |-> {"p1"}]

NextIntegrity ==
  \/ \E p \in IntegrityInputs.procs :
       \/ LedgerStep(p, IntegrityInputs)
       \/ call_acctFindById(p, IntegrityInputs) \/ call_acctDelete(p, IntegrityInputs)
       \/ acct_cacheGet(p) \/ acct_dbFind(p) \/ acct_cacheSet(p) \/ acct_dbDelete(p)
       \/ acct_cacheDel(p)
       \/ call_deleteCategory(p, IntegrityInputs) \/ deleteCategory_findById(p)
       \/ deleteCategory_delete(p)
  \/ \E a \in AccountIds : acct_cacheExpire(a)
SpecIntegrity == Init /\ [][NextIntegrity]_vars

\* Overlapping update and remove calls of one user on the transactions of one
\* account; every update supplies an amount; the store never fails.
OverlapUpdInputs ==
  [users |-> {"u1"}, txIds |-> TxIds, cAccounts |-> {"a1"}, cCategories |-> {"c1"},
   amounts |-> {1}, types |-> {"income", "expense"}, statuses |-> {"completed"}, dates |-> {2},
   uAccounts |-> {Absent}, uCategories |-> {Absent}, uAmounts |-> {2, 3}, uTypes |-> {Absent},
   uStatuses |-> {Absent}, uDates |-> {-1},
   faults |-> {FALSE}, calls |-> MaxCalls, procs |-> Procs]
NextUR == \E p \in OverlapUpdInputs.procs : LedgerStep(p, OverlapUpdInputs)
SpecUR == Init /\ [][NextUR]_vars

\* Overlapping create and remove calls of one user on one account; the store
\* never fails.
OverlapRemInputs == [OverlapInputs EXCEPT !.faults = {FALSE}]
NextRR ==
  \E p \in OverlapRemInputs.procs :
    \/ call_create(p, OverlapRemInputs) \/ create_findAccount(p) \/ create_findCategory(p)
    \/ create_insertRow(p, OverlapRemInputs) \/ create_incrementBalance(p, OverlapRemInputs)
    \/ call_remove(p, OverlapRemInputs) \/ remove_findOne(p)
    \/ remove_deleteRow(p, OverlapRemInputs) \/ remove_incrementBalance(p, OverlapRemInputs)
    \/ Return(p)
SpecRR == Init /\ [][NextRR]_vars

\* Overlapping reads, updates and deletions of one account by its owner.
OverlapAcctInputs ==
  [users |-> {"u1"}, acctIds |-> {"a1"}, aBalances |-> {5}, aArchived |-> {Absent, "true"},
   faults |-> {FALSE}, calls |-> MaxCalls, procs |-> Procs]

NextAcctOverlap ==
  \/ \E p \in OverlapAcctInputs.procs :
       \/ call_acctFindById(p, OverlapAcctInputs) \/ call_acctUpdate(p, OverlapAcctInputs)
       \/ call_acctDelete(p, OverlapAcctInputs)
       \/ acct_cacheGet(p) \/ acct_dbFind(p) \/ acct_cacheSet(p)
       \/ acct_dbUpdate(p) \/ acct_dbDelete(p) \/ acct_cacheDel(p)
       \/ Return(p)
  \/ \E a \in AccountIds : acct_cacheExpire(a)
SpecAcctOverlap == Init /\ [][NextAcctOverlap]_vars

\* The zones a server can run in: UTC-12 to UTC+14, in whole hours.
UtcOffsets == (0 - 12)..14
InitZone == InitStore /\ utcOffset \in UtcOffsets /\ today = FirstDay(CurrentMonth)

\* One caller at a time: completed creates dated on the last day before the
\* current month, on its first and last day and on the first day after it; the
\* summary and the income-vs-expense view of that month; list requests filtered
\* by that month, in either form of the month parameter.
ZoneInputs ==
  [users |-> {"u1"}, cAccounts |-> {"a1"}, cCategories |-> {"c1"}, amounts |-> {1},
   types |-> {"income"}, statuses |-> {"completed"},
   dates |-> {LastDay(CurrentMonth - 1), FirstDay(CurrentMonth), LastDay(CurrentMonth),
              FirstDay(CurrentMonth + 1)},
   reports |-> {<<"summary", CurrentMonth, Absent, 0>>,
                <<"income-vs-expense", CurrentMonth, Absent, 0>>},
   queries |-> {[NoQuery EXCEPT !.monthForm = "MM", !.monthNo = CurrentMonth, !.year = "YYYY"],
                [NoQuery EXCEPT !.monthForm = "YYYY-MM", !.monthNo = CurrentMonth]},
   faults |-> {FALSE}, calls |-> MaxCalls, procs |-> {"p1"}]

NextZone ==
  \/ \E p \in ZoneInputs.procs :
       \/ call_report(p, ZoneInputs) \/ report_cacheGet(p) \/ report_compute(p)
       \/ report_cacheSet(p)
       \/ call_findAll(p, ZoneInputs) \/ findAll_validate(p) \/ findAll_query(p)
       \/ call_create(p, ZoneInputs) \/ create_findAccount(p) \/ create_findCategory(p)
       \/ create_insertRow(p, ZoneInputs) \/ create_incrementBalance(p, ZoneInputs)
       \/ Return(p)
  \/ \E k \in ReportKeys : report_cacheExpire(k)
SpecZone == InitZone /\ [][NextZone]_vars

\* ------------------------------------------------------------------ claims
Done(p) == req[p].pc = "done"
\* The lone call of slot p has returned; `pre` holds the tables it started from.
DoneAlone(p) == Done(p) /\ pre.owner = p

\* C1: after successfully completed, non-overlapping create / update / remove
\* calls, every account's balance is the signed sum of the transactions attached
\* to it (+amount for income, -amount for expense).
C1_BalanceIsSignedSum ==
  Quiescent => \A a \in AccountIds : accounts[a].balance = SignedSum(a)

\* C2: an update that moves a transaction from account A to account B takes the
\* old signed effect off A and puts the new signed effect on B, whether or not the
\* update also supplies amount or type; balances that matched their signed sums
\* before the update match them after it.
C2_MoveAdjustsBothAccounts ==
  \A p \in Procs :
    (DoneAlone(p) /\ req[p].op = "update" /\ req[p].res = "ok"
       /\ pre.txs[req[p].id].accountId # txs[req[p].id].accountId)
    => LET old == pre.txs[req[p].id]
           new == txs[req[p].id]
           A == old.accountId
           B == new.accountId IN
       /\ accounts[A].balance
            = pre.accounts[A].balance - SignedAmount(old.type, old.amount)
       /\ accounts[B].balance
            = pre.accounts[B].balance + SignedAmount(new.type, new.amount)
       /\ (\A a \in {A, B} : pre.accounts[a].balance = SignedSumIn(pre.txs, a))
            => \A a \in {A, B} : accounts[a].balance = SignedSum(a)

\* C3: when a step of the atomic unit of create, update or remove fails, the
\* transaction rows and every account balance are as they were before the call.
C3_FailedUnitLeavesNoTrace ==
  \A p \in Procs :
    (DoneAlone(p) /\ req[p].faulted) => txs = pre.txs /\ accounts = pre.accounts

\* C6: a call rejected for a missing or foreign transaction or account, or for a
\* missing category, has inserted, changed or deleted no transaction row and has
\* changed no account balance.
C6_RejectedCallMutatesNothing ==
  \A p \in Procs :
    (DoneAlone(p) /\ req[p].res \in {"Forbidden", "NotFound"})
    => txs = pre.txs /\ accounts = pre.accounts
\* u2's call on an account of u1 that already carries a transaction was rejected.
C6_Witness ==
  \E p \in Procs :
    /\ DoneAlone(p) /\ req[p].res = "Forbidden" /\ req[p].ref = "foreign"
    /\ \E t \in TxIds : txs[t].live /\ txs[t].accountId = req[p].dto.account

\* C10: a call on a transaction or account id that does not exist and the same
\* call on one that belongs to another user end in the same error: NotFound for
\* a transaction, Forbidden for an account, whichever of the two cases it is.
C10_SameErrorMissingOrForeign ==
  \A p \in Procs :
    (Done(p) /\ req[p].ref \in {"missing", "foreign"})
    => req[p].res = IF req[p].refOf = "account" THEN "Forbidden" ELSE "NotFound"
\* u2 asked to remove a live transaction of u1.
C10_Witness ==
  \E p \in Procs :
    /\ Done(p) /\ req[p].op = "remove" /\ req[p].ref = "foreign"
    /\ txs[req[p].id].live /\ txs[req[p].id].userId # req[p].user

\* C4: when create or remove calls for distinct transactions of one account
\* overlap, then once all have completed the balance is the starting balance
\* (0) plus the signed delta of every call that returned success.
C4_NoLostIncrement ==
  Quiescent => \A a \in AccountIds : accounts[a].balance = credited[a]
\* Two calls that overlapped, on distinct transactions of one account, both succeeded.
C4_Witness ==
  \E p, q \in Procs :
    /\ p # q /\ Quiescent /\ Done(p) /\ Done(q)
    /\ req[p].res = "ok" /\ req[q].res = "ok" /\ req[p].ovl /\ req[q].ovl
    /\ req[p].id # req[q].id /\ accounts["a1"].balance # 0

\* C5: in every state a concurrent reader can see, each account's balance is the
\* signed sum of the transaction rows visible for it.
C5_ReaderSeesRowWithItsEffect ==
  \A a \in AccountIds : accounts[a].live => accounts[a].balance = SignedSum(a)

\* C7: after a create, update or remove returned success for a user, no report
\* read of that user is answered from a cache entry computed before that write.
C7_ReportNotServedFromBeforeWrite ==
  \A p \in Procs :
    (Done(p) /\ req[p].op = "report" /\ req[p].hit) => <<req[p].id, req[p].user>> \notin stale

\* C8: once an account has transactions, no AccountRepository operation (update
\* with a user-supplied balance in particular) changes its balance.
C8_OnlyLedgerWritesMoveBalance ==
  \A p \in Procs :
    (DoneAlone(p) /\ req[p].op \in {"acctUpdate", "acctArchive"} /\ req[p].res = "ok"
       /\ \E t \in TxIds : pre.txs[t].live /\ pre.txs[t].accountId = req[p].id)
    => /\ accounts[req[p].id].balance = pre.accounts[req[p].id].balance
       /\ (pre.accounts[req[p].id].balance = SignedSumIn(pre.txs, req[p].id)
             => accounts[req[p].id].balance = SignedSum(req[p].id))

\* C9: findById, update, updateArchiveStatus and delete return or modify an
\* account only if userId owns it; otherwise they throw NotFoundException and
\* change nothing, whatever reads (cache-populating ones included) came before.
C9_AccountOpsOwnerOnly ==
  \A p \in Procs :
    (DoneAlone(p) /\ req[p].op \in AccountOps
       /\ ~(pre.accounts[req[p].id].live /\ pre.accounts[req[p].id].userId = req[p].user))
    => req[p].res = "NotFound" /\ accounts = pre.accounts /\ txs = pre.txs

\* C11: a create or update that references a category owned by a different user
\* is rejected and leaves the transaction rows and all balances unchanged.
C11_ForeignCategoryRejected ==
  \A p \in Procs :
    (DoneAlone(p) /\ req[p].op \in {"create", "update"}
       /\ req[p].dto.category \in CategoryIds
       /\ CategoryOwner[req[p].dto.category] # req[p].user)
    => req[p].res # "ok" /\ txs = pre.txs /\ accounts = pre.accounts

\* C12: create with an account of the caller and no category (absent or null)
\* succeeds, inserts the row with an absent category reference and applies the
\* signed amount to the account's balance.
C12_CreateWithoutCategory ==
  \A p \in Procs :
    (DoneAlone(p) /\ req[p].op = "create" /\ req[p].dto.category \in {Absent, Null}
       /\ req[p].dto.account \in AccountIds
       /\ pre.accounts[req[p].dto.account].live
       /\ pre.accounts[req[p].dto.account].userId = req[p].user)
    => /\ req[p].res = "ok"
       /\ txs[req[p].id].live /\ txs[req[p].id].categoryId = Null
       /\ accounts[req[p].dto.account].balance
            = pre.accounts[req[p].dto.account].balance
              + SignedAmount(req[p].dto.type, req[p].dto.amount)

\* C13: an update whose input changes none of amount, type or account (each is
\* absent or equal to the stored value) leaves every account balance unchanged.
C13_NoChangeKeepsBalances ==
  \A p \in Procs :
    (DoneAlone(p) /\ req[p].op = "update"
       /\ pre.txs[req[p].id].live /\ pre.txs[req[p].id].userId = req[p].user
       /\ req[p].dto.amount \in {0, pre.txs[req[p].id].amount}
       /\ req[p].dto.type \in {Absent, pre.txs[req[p].id].type}
       /\ req[p].dto.account \in {Absent, pre.txs[req[p].id].accountId})
    => \A a \in AccountIds : accounts[a].balance = pre.accounts[a].balance
\* An update that named the stored amount, type and account again has succeeded
\* on an account whose balance is not 0.
C13_Witness ==
  \E p \in Procs :
    /\ DoneAlone(p) /\ req[p].op = "update" /\ req[p].res = "ok"
    /\ req[p].dto.amount = pre.txs[req[p].id].amount
    /\ req[p].dto.type = pre.txs[req[p].id].type
    /\ req[p].dto.account = pre.txs[req[p].id].accountId
    /\ accounts[req[p].dto.account].balance # 0

\* C14: update leaves every field of the stored transaction that is absent from
\* the input unchanged, and changes no other transaction row.
C14_PartialUpdate ==
  \A p \in Procs :
    (DoneAlone(p) /\ req[p].op = "update")
    => LET old == pre.txs[req[p].id]
           new == txs[req[p].id]
           dto == req[p].dto IN
       /\ \A t \in TxIds \ {req[p].id} : txs[t] = pre.txs[t]
       /\ new.live = old.live /\ new.userId = old.userId
       /\ dto.amount = 0 => new.amount = old.amount
       /\ dto.type = Absent => new.type = old.type
       /\ dto.status = Absent => new.status = old.status
       /\ dto.date = -1 => new.date = old.date
       /\ dto.account = Absent => new.accountId = old.accountId
       /\ dto.category = Absent => new.categoryId = old.categoryId
\* An update that supplied only a status changed it, a second row standing by.
C14_Witness ==
  \E p \in Procs :
    /\ DoneAlone(p) /\ req[p].op = "update" /\ req[p].res = "ok"
    /\ req[p].dto = [NoDto EXCEPT !.status = "pending"]
    /\ txs[req[p].id].status # pre.txs[req[p].id].status
    /\ \E t \in TxIds \ {req[p].id} : txs[t].live

\* C15: a report response cached for one user's request is never returned to a
\* different user requesting the same view with the same query parameters.
C15_ReportCacheKeyedByUser ==
  \A p \in Procs :
    (Done(p) /\ req[p].op = "report" /\ req[p].hit) => req[p].cachedFor = req[p].user

\* C16: after AccountRepository.update, updateArchiveStatus or delete changed an
\* account, no findById of it and no getAccountsSummary of its owner is answered
\* from a cache entry computed before that write.
C16_AccountReadsAfterAccountWrite ==
  \A p \in Procs :
    (Done(p) /\ req[p].hit)
    => /\ req[p].op = "acctFindById" => <<"Account", req[p].id, "account">> \notin staleAcct
       /\ req[p].op = "acctSummary" => <<"summary", req[p].user, "account">> \notin staleAcct

\* C17: after a transaction create, update or remove returned success, no
\* findOneById of an affected account and no getAccountsSummary of the user is
\* answered with a balance cached before that write.
C17_AccountReadsAfterLedgerWrite ==
  \A p \in Procs :
    (Done(p) /\ req[p].hit)
    => /\ req[p].op = "acctFindById" => <<"Account", req[p].id, "ledger">> \notin staleAcct
       /\ req[p].op = "acctSummary" => <<"summary", req[p].user, "ledger">> \notin staleAcct

\* C18: a list request whose filter supplies a month without a year, or a year
\* without a month, is rejected with a validation error and issues no store query.
C18_MonthAndYearTogether ==
  \A p \in Procs :
    (Done(p) /\ req[p].op = "findAll"
       /\ \/ req[p].dto.monthForm = "MM" /\ req[p].dto.year \in {Absent, "empty"}
          \/ req[p].dto.year = "YYYY" /\ req[p].dto.monthForm \in {Absent, "empty"})
    => req[p].res = "Validation" /\ ~req[p].queried

\* The rows of pages 1..k, one page after the other.
RECURSIVE PagesUpTo(_, _)
PagesUpTo(pages, k) == IF k = 0 THEN <<>> ELSE PagesUpTo(pages, k - 1) \o pages[k].rows

\* C19: for a fixed user, filter, sort and page size and no intervening writes,
\* pages 1..totalPages of findAll have lengths that sum to the reported total,
\* share no transaction, and are, one after the other, ordered by the requested
\* sort field and direction, also when transactions tie on the sort field.
C19_PagesPartitionTheResult ==
  (listing.user # Absent /\ listing.txs = txs /\ listing.pages[1].got)
  => LET total == listing.pages[1].total
         limit == listing.query.limit
         totalPages == (total + limit - 1) \div limit
         all == PagesUpTo(listing.pages, totalPages) IN
     (totalPages <= MaxPage /\ \A k \in 1..totalPages : listing.pages[k].got)
     => /\ Len(all) = total
        /\ \A i, j \in 1..Len(all) : i # j => all[i] # all[j]
        /\ \A i, j \in 1..Len(all) :
             i < j => IF listing.query.order = "asc"
                      THEN SortKey(all[i], listing.query.sort)
                             <= SortKey(all[j], listing.query.sort)
                      ELSE SortKey(all[i], listing.query.sort)
                             >= SortKey(all[j], listing.query.sort)

\* The calendar month an instant lies in.
MonthOfInstant(i) == MonthOfDay(i \div TicksPerDay)
\* The user's completed transactions of one type dated in month m.
CompletedIn(u, type, m) ==
  {t \in TxIds : txs[t].live /\ txs[t].userId = u /\ txs[t].type = type
                 /\ txs[t].status = "completed" /\ MonthOfInstant(txs[t].date) = m}

MonthlyDataDone(p) ==
  DoneAlone(p) /\ req[p].op = "report" /\ req[p].id[1] = "monthly-data" /\ ~req[p].hit

\* C22: getMonthlyData returns entries for distinct, consecutive calendar months
\* in strictly ascending order, the last one being the requested month (the
\* current month when none is requested), each with balance = income - expense,
\* for every requested month and, with no month requested, for every day of the
\* month the clock may show, the last days of a long month included.
C22_MonthlyDataMonths ==
  \A p \in Procs :
    MonthlyDataDone(p)
    => LET resp == req[p].resp IN
       /\ Len(resp) >= 1
       /\ resp[Len(resp)].month = IF req[p].id[2] = 0 THEN CurrentMonth ELSE req[p].id[2]
       /\ \A k \in 1..(Len(resp) - 1) : resp[k + 1].month = resp[k].month + 1
       /\ \A k \in 1..Len(resp) : resp[k].balance = resp[k].income - resp[k].expense

\* C23: getMonthlyData returns exactly as many entries as the window size the
\* caller supplies, and exactly 6 when the caller supplies none.
C23_MonthlyDataWindow ==
  \A p \in Procs :
    MonthlyDataDone(p)
    => Len(req[p].resp) = IF req[p].id[4] = 0 THEN WindowSize ELSE req[p].id[4]

\* C24: on a cache miss getAccountsSummary(userId) returns totalBalance = the sum
\* of the balances of all of the user's accounts, archived ones included,
\* totalAccounts = their number and activeAccounts = the number of those not
\* archived, and stores that result in the cache; on a cache hit it returns the
\* cached value without reading the store.
\* (stated of the step in which the call returns: the entry may expire later)
SummaryAsClaimed(p) ==
  (DoneAlone(p) /\ req[p].op = "acctSummary")
    => LET u == req[p].user
           mine == {a \in AccountIds : accounts[a].live /\ accounts[a].userId = u} IN
       IF req[p].hit
       THEN ~req[p].queried /\ summaryCache[u].hit /\ req[p].resp = summaryCache[u].value
       ELSE /\ req[p].resp.totalBalance
                 = SumOver(mine, [a \in AccountIds |-> accounts[a].balance])
            /\ req[p].resp.totalAccounts = Cardinality(mine)
            /\ req[p].resp.activeAccounts
                 = Cardinality({a \in mine : ~accounts[a].isArchived})
            /\ summaryCache[u] = [hit |-> TRUE, value |-> req[p].resp, by |-> u]
C25_StoreFailureIsInternal ==
  \A p \in Procs :
    (Done(p) /\ req[p].faulted /\ req[p].op \in {"create", "update", "remove"})
    => req[p].res = "Internal"

\* C26: after any sequence of account, category and transaction operations, every
\* stored transaction references an existing account owned by the transaction's
\* user, and its category reference is absent or an existing category; deleting
\* an account removes all of its transactions (and no other); deleting a category
\* leaves its transactions stored with an absent category and changes no balance.
C26_ReferentialIntegrity ==
  /\ \A t \in TxIds :
       txs[t].live
       => /\ txs[t].accountId \in AccountIds
          /\ accounts[txs[t].accountId].live
          /\ accounts[txs[t].accountId].userId = txs[t].userId
          /\ txs[t].categoryId = Null \/ txs[t].categoryId \in categories
  /\ \A p \in Procs :
       (DoneAlone(p) /\ req[p].res = "ok")
       => /\ req[p].op = "acctDelete"
               => \A t \in TxIds :
                    txs[t] = IF pre.txs[t].accountId = req[p].id THEN DeadTx ELSE pre.txs[t]
          /\ req[p].op = "deleteCategory"
               => /\ \A t \in TxIds :
                       txs[t] = IF pre.txs[t].live /\ pre.txs[t].categoryId = req[p].id
                                THEN [pre.txs[t] EXCEPT !.categoryId = Null] ELSE pre.txs[t]
                  /\ accounts = pre.accounts
\* An account that carried a transaction has been deleted.
C26_Witness ==
  \E p \in Procs :
    /\ DoneAlone(p) /\ req[p].op = "acctDelete" /\ req[p].res = "ok"
    /\ \E t \in TxIds : pre.txs[t].live /\ pre.txs[t].accountId = req[p].id
    /\ ~accounts[req[p].id].live

\* Calls p and q overlapped on one transaction and both have returned.
OverlappedOnOne(p, q, ops) ==
  /\ p # q /\ Done(p) /\ Done(q) /\ req[p].ovl /\ req[q].ovl
  /\ req[p].id = req[q].id /\ {req[p].op, req[q].op} = ops

\* C27: when two update calls, or an update and a remove call, on the same
\* transaction overlap, then for every interleaving, once both have completed,
\* each account's balance equals the signed sum of the transactions attached to
\* it: no delta is computed from a copy of the row that the other call has since
\* changed or deleted.
C27_OverlappingUpdates ==
  \A p, q \in Procs :
    (OverlappedOnOne(p, q, {"update"}) \/ OverlappedOnOne(p, q, {"update", "remove"}))
    => \A a \in AccountIds : accounts[a].balance = SignedSum(a)

\* The remove calls issued so far, where every call is a create or a remove and
\* no create fails: the calls, less the rows inserted, less the creates on their
\* way to the insert.
RemovesIssued ==
  nCalls - (nextTx - 1)
    - Cardinality({q \in Procs : req[q].op = "create"
                                 /\ req[q].pc \in {"create", "create_cat", "create_row"}})

\* C28: when two remove calls for the same transaction overlap, exactly one
\* succeeds and the transaction's effect on the balance is reversed exactly once;
\* the other call fails and changes no balance.  The two calls are two that both
\* found the transaction, or the only two removes there have been (a third
\* remove, finished in between, may have been the one that succeeded); never do
\* both succeed.
C28_OverlappingRemoves ==
  \A p, q \in Procs :
    (OverlappedOnOne(p, q, {"remove"}) /\ req[p].ref = "own")
    => /\ ~(req[p].res = "ok" /\ req[q].res = "ok")
       /\ (req[q].ref = "own" \/ RemovesIssued = 2)
            => ((req[p].res = "ok") # (req[q].res = "ok"))
       /\ \A r \in {p, q} : req[r].res \in {"ok", "NotFound", "BadRequest"}
       /\ ~txs[req[p].id].live
       /\ \A a \in AccountIds : accounts[a].balance = SignedSum(a)
\* Both calls had read the row; one deleted it, the other's delete found it gone.
C28_Witness ==
  \E p, q \in Procs :
    /\ OverlappedOnOne(p, q, {"remove"}) /\ req[p].ref = "own" /\ req[q].ref = "own"
    /\ req[p].res = "ok" /\ req[q].res = "BadRequest"

\* C29: when a findById of an account overlaps an update or delete of the same
\* account, then once both have completed the cache holds no entry for that
\* account that differs from the stored row: a read that fetched the row as it
\* was before the write does not put it into the cache after the write's
\* invalidation.
C29_NoStaleRepopulation ==
  \A p, q \in Procs :
    (/\ p # q /\ Done(p) /\ Done(q) /\ req[p].ovl /\ req[q].ovl /\ req[p].id = req[q].id
     /\ req[p].op = "acctFindById" /\ req[q].op \in {"acctUpdate", "acctArchive", "acctDelete"})
    => (acctCache[req[p].id].live => acctCache[req[p].id] = accounts[req[p].id])

\* The sum of the amounts of the user's completed transactions of one type whose
\* calendar date lies in month m.
TotalIn(u, type, m) == SumOver(CompletedIn(u, type, m), [t \in TxIds |-> txs[t].amount])

\* C30: a completed transaction created with calendar date D is counted in the
\* monthly totals of the report views for month M, and matched by the month
\* filter of findAll for month M, if and only if D lies in the calendar month M,
\* also when D is the first or the last day of a month, whatever the UTC offset
\* of the server's local time.
C30_MonthMembership ==
  \A p \in Procs :
    (DoneAlone(p) /\ req[p].res = "ok")
    => LET u == req[p].user IN
       /\ (req[p].op = "report" /\ ~req[p].hit /\ req[p].id[1] = "summary")
            => /\ req[p].resp.monthlyIncome = TotalIn(u, "income", req[p].id[2])
               /\ req[p].resp.monthlyExpense = TotalIn(u, "expense", req[p].id[2])
       /\ (req[p].op = "report" /\ ~req[p].hit /\ req[p].id[1] = "income-vs-expense")
            => /\ req[p].resp[1].value = TotalIn(u, "income", req[p].id[2])
               /\ req[p].resp[2].value = TotalIn(u, "expense", req[p].id[2])
       /\ (req[p].op = "findAll" /\ req[p].dto.monthForm \in {"MM", "YYYY-MM"})
            => req[p].resp.total
                 = Cardinality({t \in TxIds : /\ txs[t].live /\ txs[t].userId = u
                                              /\ MonthOfInstant(txs[t].date) = req[p].dto.monthNo})

====
